---- MODULE Spec2Model ----
(***************************************************************************)
(* Model of docs/docs/how_to/sql_large_db.ipynb: SQL question-answering    *)
(* over a large database.  The notebook selects table categories with a    *)
(* chat model (full_chain), builds a vector index of proper nouns          *)
(* (query_as_list, FAISS.from_texts), retrieves similar proper nouns       *)
(* (chain), generates a SQL string and runs it with db.run.                *)
(*                                                                         *)
(* A Python str is a sequence of one-character strings; Python None and    *)
(* an unset value are the empty option <<>>, a set value v is <<v>>.       *)
(***************************************************************************)
EXTENDS Integers, Sequences, FiniteSets, TLC

VARIABLES
    pc,                 \* index of the next step of Notebook to execute
    status,             \* "running", "error" (an exception reached the cell), "done"
    failed,             \* option: the step that raised
    trace,              \* the steps attempted so far, in order
    question,           \* option: the question of the invocation in progress
    cat_input,          \* option: the "input" handed to category_chain
    categories,         \* the names of the Table objects category_chain returned
    table_names_to_use, \* option: the key assigned by full_chain
    table_info,         \* option: the tables whose schemas are in the prompt
    docs,               \* page_content of the documents the retriever returned
    prompt_nouns,       \* option: the proper_nouns value given to the prompt
    llm_text,           \* option: the raw text of the model's last SQL response
    query,              \* option: the notebook's `query` variable
    executed,           \* option: the string last passed to db.run(query)
    res,                \* the rows of the last result set parsed by query_as_list
    proper_nouns,       \* the notebook's `proper_nouns` list
    vector_db           \* option: the texts indexed by FAISS.from_texts

vars == <<pc, status, failed, trace, question, cat_input, categories,
          table_names_to_use, table_info, docs, prompt_nouns, llm_text, query,
          executed, res, proper_nouns, vector_db>>

----------------------------------------------------------------------------
(* Bounds *)

MaxCats == 2        \* longest list of categories the model returns
MaxRows == 6        \* most rows a proper-noun column holds
MaxLen == 2         \* longest cell text of the query_as_list inputs
MaxCells == 2       \* most cells of a query_as_list input result set

----------------------------------------------------------------------------
(* Options and sequences *)

None == <<>>
Some(v) == <<v>>
IsSet(o) == o # <<>>
Get(o) == o[1]

Range(s) == {s[i] : i \in 1..Len(s)}
Min(a, b) == IF a < b THEN a ELSE b

RECURSIVE SeqsUpTo(_, _)
SeqsUpTo(S, n) ==
    IF n = 0 THEN {<<>>}
    ELSE LET shorter == SeqsUpTo(S, n - 1)
         IN  shorter \cup {Append(s, x) : s \in {t \in shorter : Len(t) = n - 1}, x \in S}

----------------------------------------------------------------------------
(* Characters, as Python's re and str.strip classify them *)

Digits == {"0", "1", "2", "3", "4", "5", "6", "7", "8", "9"}
Letters == {"a", "b", "c", "d", "e", "S", "x"}
Whitespace == {" ", "\n", "\t"}

IsDigit(c) == c \in Digits
IsSpace(c) == c \in Whitespace
\* \w of a str pattern: alphanumerics and the underscore
IsWord(c) == c \in Digits \/ c \in Letters \/ c = "_"

----------------------------------------------------------------------------
(* The database: print(db.get_usable_table_names()) *)

UsableTableNames ==
    <<"Album", "Artist", "Customer", "Employee", "Genre", "Invoice",
      "InvoiceLine", "MediaType", "Playlist", "PlaylistTrack", "Track">>

----------------------------------------------------------------------------
(* get_tables(categories): for each category in order, extend `tables`     *)
(* with the list of the category; any other name extends nothing.          *)

MusicTables ==
    <<"Album", "Artist", "Genre", "MediaType", "Playlist", "PlaylistTrack", "Track">>

BusinessTables_with_Track == <<"Customer", "Employee", "Invoice", "InvoiceLine", "Track">>
BusinessTables == <<"Customer", "Employee", "Invoice", "InvoiceLine">>

CategoryTables_passthrough(name) ==
    IF name = "Music" THEN MusicTables
    ELSE IF name = "Business" THEN BusinessTables
    ELSE <<name>>

CategoryTables(name) ==
    IF name = "Music" THEN MusicTables
    ELSE IF name = "Business" THEN BusinessTables
    ELSE <<>>

RECURSIVE get_tables_prepend(_, _, _)
get_tables_prepend(cats, i, tables) ==
    IF i > Len(cats) THEN tables
    ELSE get_tables_prepend(cats, i + 1, CategoryTables(cats[i]) \o tables)

RECURSIVE get_tables_from(_, _, _)
get_tables_from(cats, i, tables) ==
    IF i > Len(cats) THEN tables
    ELSE get_tables_from(cats, i + 1, tables \o CategoryTables(cats[i]))

get_tables(cats) == get_tables_from(cats, 1, <<>>)

----------------------------------------------------------------------------
(* query_as_list(db, query).  A result set is a sequence of rows, a row a  *)
(* sequence of cells, a cell None (SQL NULL) or Some(text).                *)

\* `if el`: None and the empty str are falsy
Truthy(cell) == IsSet(cell) /\ Get(cell) # <<>>

\* [el for el in sub if el]
RECURSIVE RowElements(_, _)
RowElements(sub, j) ==
    IF j > Len(sub) THEN <<>>
    ELSE (IF Truthy(sub[j]) THEN <<Get(sub[j])>> ELSE <<>>) \o RowElements(sub, j + 1)

\* [el for sub in ast.literal_eval(res) for el in sub if el]
RECURSIVE Elements(_, _)
Elements(rows, i) ==
    IF i > Len(rows) THEN <<>>
    ELSE RowElements(rows[i], 1) \o Elements(rows, i + 1)

\* \b at the gap before s[p], p in 1..Len(s)+1: exactly one side is a word character
WordAt(s, p) == p >= 1 /\ p <= Len(s) /\ IsWord(s[p])
Boundary(s, p) == WordAt(s, p - 1) # WordAt(s, p)

\* the end (exclusive) of the greedy \d+ starting at s[i]
RECURSIVE DigitsEnd(_, _)
DigitsEnd(s, i) == IF i <= Len(s) /\ IsDigit(s[i]) THEN DigitsEnd(s, i + 1) ELSE i

\* the length of the match of \b\d+\b at s[i], 0 when there is none: \d+ takes
\* the whole run of digits, and giving digits back never ends at a \b
MatchLen(s, i) ==
    IF Boundary(s, i) /\ IsDigit(s[i]) /\ Boundary(s, DigitsEnd(s, i))
    THEN DigitsEnd(s, i) - i
    ELSE 0

\* re.sub(r"\b\d+\b", "", string): scan left to right, drop every match
RECURSIVE ReSubScan(_, _)
ReSubScan(s, i) ==
    IF i > Len(s) THEN <<>>
    ELSE IF MatchLen(s, i) > 0 THEN ReSubScan(s, i + MatchLen(s, i))
    ELSE <<s[i]>> \o ReSubScan(s, i + 1)

re_sub_every_digit(s) == SelectSeq(s, LAMBDA c : ~IsDigit(c))
re_sub_digits(s) == ReSubScan(s, 1)

\* str.strip()
RECURSIVE LStrip(_)
LStrip(s) == IF s # <<>> /\ IsSpace(s[1]) THEN LStrip(Tail(s)) ELSE s

RECURSIVE RStrip(_)
RStrip(s) ==
    IF s # <<>> /\ IsSpace(s[Len(s)]) THEN RStrip(SubSeq(s, 1, Len(s) - 1)) ELSE s

strip(s) == RStrip(LStrip(s))

\* [re.sub(r"\b\d+\b", "", string).strip() for string in res]
CleanAll(strings) == [k \in 1..Len(strings) |-> strip(re_sub_digits(strings[k]))]

query_as_list(rows) == CleanAll(Elements(rows, 1))

----------------------------------------------------------------------------
(* The environment: the questions asked, what the chat model may answer,   *)
(* and the contents of the three proper-noun columns.                      *)

Questions ==
    {"What are all the genres of Alanis Morissette songs",
     "What are all the genres of elenis moriset songs"}

\* names the model may put in the Table objects it returns
CategoryNames == {"Music", "Business", "Genre", "music"}
CategoryLists == SeqsUpTo(CategoryNames, MaxCats)

\* raw responses of the model to the SQL prompt: a query, text that is no
\* SQL, and a query wrapped in whitespace
QueryTexts == {<<"S">>, <<"x">>, <<" ", "S", "\n">>}

ArtistNames ==
    <<Some(<<"a", "b">>), Some(<<"a", "c", " ", "1">>), Some(<<"b", "2">>),
      Some(<<"b", "c">>), Some(<<"a", "c", " ", "2">>), Some(<<"c", "a">>),
      Some(<<"c", "b">>), Some(<<"a">>)>>

AlbumTitles ==
    <<Some(<<"a", "b">>), Some(<<"1", "9">>), Some(<<"b", "a">>), None,
      Some(<<"a", "a", " ", "b">>), Some(<<"b", "b">>), Some(<<"c", "c">>),
      Some(<<"c">>)>>

GenreNames ==
    <<Some(<<"d">>), Some(<<"d", "e">>), Some(<<"e">>), Some(<<"e", "d">>),
      Some(<<"d", "d">>), Some(<<"e", "e">>), Some(<<"d", " ", "e">>),
      Some(<<"e", " ", "d">>)>>

Column(name) ==
    IF name = "Artist.Name" THEN ArtistNames
    ELSE IF name = "Album.Title" THEN AlbumTitles
    ELSE GenreNames

\* the rows of SELECT <column> on a table of n rows: one cell per row
ColumnRows(name, n) == [i \in 1..Min(n, Len(Column(name))) |-> <<Column(name)[i]>>]

----------------------------------------------------------------------------
(* The chains and the cells that run them *)

\* full_chain = RunnablePassthrough.assign(table_names_to_use=table_chain) | query_chain
full_chain_reversed == <<"query_chain", "table_chain">>
full_chain == <<"table_chain", "query_chain">>

\* chain = RunnablePassthrough.assign(proper_nouns=retriever_chain) | query_chain
chain == <<"retriever_chain", "query_chain">>

Steps(run, ops) == [i \in 1..Len(ops) |-> [run |-> run, op |-> ops[i]]]

Notebook ==
    Steps("setup", <<"SQLDatabase.from_uri">>)
    \o Steps("full_chain", full_chain \o <<"db.run">>)
    \o Steps("index", <<"Artist.Name", "Album.Title", "Genre.Name", "FAISS.from_texts">>)
    \o Steps("query_chain", <<"query_chain", "db.run">>)
    \o Steps("chain", chain \o <<"db.run">>)

Running == status = "running" /\ pc <= Len(Notebook)
Step == Notebook[pc]
FirstOfRun == pc = 1 \/ Notebook[pc - 1].run # Step.run

\* table_chain = category_chain | get_tables
table_chain(cats) == get_tables(cats)

\* RunnablePassthrough.assign(table_names_to_use=table_chain)
assign_unset(tables) == None
assign_table_names_to_use(tables) == Some(tables)

\* create_sql_query_chain: table_names_to_use determines which table schemas
\* are included in the prompt; without the key, every usable table is
get_table_info(names) ==
    IF IsSet(names) THEN Range(Get(names)) ELSE Range(UsableTableNames)

\* the query-construction step returns the model's raw text response
query_chain_output(text) == text

\* db.run(query): the argument handed to the database
db_run_stripped(q) == strip(q)
db_run_argument(q) == q

\* retriever = vector_db.as_retriever(search_kwargs={"k": 15})
K == 15

\* the texts ordered by similarity to the question; the order is the
\* embedding model's, here one of the rotations of the index
Ranked(texts, r) ==
    [i \in 1..Len(texts) |-> texts[((r + i - 2) % Len(texts)) + 1]]

retriever(texts, r) == SubSeq(Ranked(texts, r), 1, Min(K, Len(texts)))

\* "\n".join(doc.page_content for doc in docs)
RECURSIVE JoinFrom(_, _)
JoinFrom(ds, i) ==
    IF i > Len(ds) THEN <<>>
    ELSE (IF i > 1 THEN <<"\n">> ELSE <<>>) \o ds[i] \o JoinFrom(ds, i + 1)

join_reversed(ds) == JoinFrom([i \in 1..Len(ds) |-> ds[Len(ds) + 1 - i]], 1)
retriever_chain_join(ds) == JoinFrom(ds, 1)

----------------------------------------------------------------------------
(* The notebook run top to bottom *)

Init ==
    /\ pc = 1
    /\ status = "running"
    /\ failed = None
    /\ trace = <<>>
    /\ question = None
    /\ cat_input = None
    /\ categories = <<>>
    /\ table_names_to_use = None
    /\ table_info = None
    /\ docs = <<>>
    /\ prompt_nouns = None
    /\ llm_text = None
    /\ query = None
    /\ executed = None
    /\ res = <<>>
    /\ proper_nouns = <<>>
    /\ vector_db = None

\* the step ran to its end: the next statement is reached
Advance ==
    /\ trace' = Append(trace, Step)
    /\ pc' = pc + 1
    /\ UNCHANGED <<status, failed>>

\* no cell has a try/except: an exception ends the run at the raising step
Swallowed == status' = "running" /\ pc' = pc + 1
Unhandled == status' = "error" /\ pc' = pc

\* any library call may raise (unreachable database, API error, malformed SQL)
Raise ==
    /\ Running
    /\ failed' = Some(Step)
    /\ trace' = Append(trace, Step)
    /\ Unhandled
    /\ UNCHANGED <<question, cat_input, categories, table_names_to_use, table_info,
                   docs, prompt_nouns, llm_text, query, executed, res, proper_nouns,
                   vector_db>>

\* db = SQLDatabase.from_uri("sqlite:///Chinook.db")
Connect ==
    /\ Running
    /\ Step.op = "SQLDatabase.from_uri"
    /\ Advance
    /\ UNCHANGED <<question, cat_input, categories, table_names_to_use, table_info,
                   docs, prompt_nouns, llm_text, query, executed, res, proper_nouns,
                   vector_db>>

\* {"input": itemgetter("question")} | category_chain | get_tables, assigned
\* to table_names_to_use
TableChain ==
    /\ Running
    /\ Step.op = "table_chain"
    /\ \E q \in Questions, cats \in CategoryLists :
        /\ question' = (IF FirstOfRun THEN Some(q) ELSE question)
        /\ cat_input' = question'
        /\ categories' = cats
        /\ table_names_to_use' = assign_table_names_to_use(table_chain(cats))
    /\ Advance
    /\ UNCHANGED <<table_info, docs, prompt_nouns, llm_text, query, executed, res,
                   proper_nouns, vector_db>>

\* itemgetter("question") | retriever | join, assigned to proper_nouns
RetrieverChain ==
    /\ Running
    /\ Step.op = "retriever_chain"
    /\ IsSet(vector_db)
    /\ \E q \in Questions, r \in 1..(IF Get(vector_db) = <<>> THEN 1 ELSE Len(Get(vector_db))) :
        /\ question' = (IF FirstOfRun THEN Some(q) ELSE question)
        /\ docs' = retriever(Get(vector_db), r)
        /\ prompt_nouns' = Some(retriever_chain_join(docs'))
    /\ Advance
    /\ UNCHANGED <<cat_input, categories, table_names_to_use, table_info, llm_text,
                   query, executed, res, proper_nouns, vector_db>>

\* query_chain: format the prompt, call the model, return its text
QueryChain ==
    /\ Running
    /\ Step.op = "query_chain"
    /\ \E q \in Questions, text \in QueryTexts :
        /\ question' = (IF FirstOfRun THEN Some(q) ELSE question)
        /\ llm_text' = Some(text)
        /\ query' = Some(query_chain_output(text))
    /\ table_info' =
         Some(get_table_info(IF Step.run = "full_chain" THEN table_names_to_use ELSE None))
    /\ prompt_nouns' = (IF Step.run = "query_chain" THEN Some(<<>>) ELSE prompt_nouns)
    /\ Advance
    /\ UNCHANGED <<cat_input, categories, table_names_to_use, docs, executed, res,
                   proper_nouns, vector_db>>

\* db.run(query); the values of the invocation that produced query are gone
DbRun ==
    /\ Running
    /\ Step.op = "db.run"
    /\ IsSet(query)
    /\ executed' = Some(db_run_argument(Get(query)))
    /\ question' = None
    /\ cat_input' = None
    /\ categories' = <<>>
    /\ table_names_to_use' = None
    /\ table_info' = None
    /\ docs' = <<>>
    /\ prompt_nouns' = None
    /\ Advance
    /\ UNCHANGED <<llm_text, query, res, proper_nouns, vector_db>>

IsColumn(op) == op \in {"Artist.Name", "Album.Title", "Genre.Name"}

\* proper_nouns = query_as_list(...); proper_nouns += query_as_list(...)
QueryAsList ==
    /\ Running
    /\ IsColumn(Step.op)
    /\ \E n \in 1..MaxRows :
        /\ res' = ColumnRows(Step.op, n)
        /\ proper_nouns' =
             (IF Step.op = "Artist.Name" THEN <<>> ELSE proper_nouns) \o query_as_list(res')
    /\ Advance
    /\ UNCHANGED <<question, cat_input, categories, table_names_to_use, table_info,
                   docs, prompt_nouns, llm_text, query, executed, vector_db>>

\* a query without rows: db.run returns '' and ast.literal_eval('') raises
QueryAsListNoRows ==
    /\ Running
    /\ IsColumn(Step.op)
    /\ res' = <<>>
    /\ failed' = Some(Step)
    /\ trace' = Append(trace, Step)
    /\ Unhandled
    /\ UNCHANGED <<question, cat_input, categories, table_names_to_use, table_info,
                   docs, prompt_nouns, llm_text, query, executed, proper_nouns,
                   vector_db>>

\* vector_db = FAISS.from_texts(proper_nouns, OpenAIEmbeddings())
FromTexts ==
    /\ Running
    /\ Step.op = "FAISS.from_texts"
    /\ vector_db' = Some(proper_nouns)
    /\ Advance
    /\ UNCHANGED <<question, cat_input, categories, table_names_to_use, table_info,
                   docs, prompt_nouns, llm_text, query, executed, res, proper_nouns>>

Next ==
    \/ Connect
    \/ TableChain
    \/ RetrieverChain
    \/ QueryChain
    \/ DbRun
    \/ QueryAsList
    \/ QueryAsListNoRows
    \/ FromTexts
    \/ Raise

Spec == Init /\ [][Next]_vars

----------------------------------------------------------------------------
(* query_as_list applied to every small result set *)

QALAlphabet == {"a", "1", " "}
QALCells == {None} \cup {Some(s) : s \in SeqsUpTo(QALAlphabet, MaxLen)}

\* the result sets of at most MaxCells cells: r rows of c columns each
ResultSets ==
    {<<>>} \cup
    UNION {[1..sh[1] -> [1..sh[2] -> QALCells]] :
             sh \in {t \in (1..MaxCells) \X (1..MaxCells) : t[1] * t[2] <= MaxCells}}

InitQAL ==
    /\ pc = 0
    /\ status = "called"
    /\ res \in ResultSets
    /\ failed = None
    /\ trace = <<>>
    /\ question = None
    /\ cat_input = None
    /\ categories = <<>>
    /\ table_names_to_use = None
    /\ table_info = None
    /\ docs = <<>>
    /\ prompt_nouns = None
    /\ llm_text = None
    /\ query = None
    /\ executed = None
    /\ proper_nouns = <<>>
    /\ vector_db = None

ReturnQAL ==
    /\ status = "called"
    /\ res # <<>>
    /\ proper_nouns' = query_as_list(res)
    /\ status' = "returned"
    /\ UNCHANGED <<pc, failed, trace, question, cat_input, categories,
                   table_names_to_use, table_info, docs, prompt_nouns, llm_text,
                   query, executed, res, vector_db>>

RaiseQAL ==
    /\ status = "called"
    /\ res = <<>>
    /\ status' = "error"
    /\ UNCHANGED <<pc, failed, trace, question, cat_input, categories,
                   table_names_to_use, table_info, docs, prompt_nouns, llm_text,
                   query, executed, res, proper_nouns, vector_db>>

NextQAL == ReturnQAL \/ RaiseQAL

SpecQAL == InitQAL /\ [][NextQAL]_vars

----------------------------------------------------------------------------
(* Properties *)

LastStep == IF pc > 1 THEN Some(Notebook[pc - 1]) ELSE None
StepOf(run, op) == [run |-> run, op |-> op]
Before(i, run, op) == \E j \in 1..(i - 1) : trace[j] = StepOf(run, op)

\* C1: in every run the steps happen in one linear order: in full_chain the
\* table selection, in chain the proper-noun retrieval, comes before the
\* query generation of that run; db.run comes only after the query
\* generation of its run and only with a query string at hand; and no step
\* is attempted twice.
C1_LinearOrder ==
    /\ \A i \in 1..Len(trace) :
        /\ trace[i] = StepOf("full_chain", "query_chain")
             => Before(i, "full_chain", "table_chain")
        /\ trace[i] = StepOf("chain", "query_chain")
             => Before(i, "chain", "retriever_chain")
        /\ trace[i].op = "db.run" => Before(i, trace[i].run, "query_chain")
        /\ \A j \in 1..Len(trace) : trace[j] = trace[i] => j = i
    /\ IsSet(executed) => IsSet(query)

C1_Witness ==
    /\ pc > Len(Notebook)
    /\ status = "running"
    /\ Len(trace) = Len(Notebook)
    /\ IsSet(executed)

\* C2: a step that fails ends the run in the error outcome at that step: the
\* failing step was attempted once, query, the string given to db.run and
\* the values assigned by the chains are left as they were (no fallback
\* value), and once the run is in error no step executes any more.
C2_FailurePropagates ==
    [][ /\ failed' # failed =>
            /\ status' = "error"
            /\ pc' = pc
            /\ failed' = Some(Step)
            /\ Step \notin Range(trace)
            /\ UNCHANGED <<query, executed, llm_text, table_names_to_use,
                           prompt_nouns, proper_nouns, vector_db>>
        /\ status = "error" => UNCHANGED vars ]_vars

C2_Witness ==
    /\ status = "error"
    /\ failed = Some(StepOf("chain", "query_chain"))
    /\ IsSet(prompt_nouns)
    /\ executed = query

\* C3: in full_chain, table_names_to_use is get_tables of the categories the
\* model selected for the question of the invocation, and the prompt of the
\* query generation holds the schemas of those tables and of no other.
C3_SelectedTables == UNION {Range(CategoryTables(categories[i])) : i \in 1..Len(categories)}

C3_OnlySelectedSchemas ==
    /\ IsSet(table_names_to_use) =>
        /\ IsSet(question)
        /\ cat_input = question
        /\ table_names_to_use = Some(get_tables(categories))
    /\ LastStep = Some(StepOf("full_chain", "query_chain")) =>
        /\ IsSet(table_names_to_use)
        /\ IsSet(table_info)
        /\ Get(table_info) = C3_SelectedTables

C3_Witness ==
    /\ LastStep = Some(StepOf("full_chain", "query_chain"))
    /\ categories = <<"Business">>
    /\ table_info = Some({"Customer", "Employee", "Invoice", "InvoiceLine"})
    /\ IsSet(query)

\* C4: get_tables returns, in the order of the categories, the tables of
\* each: Music gives Album, Artist, Genre, MediaType, Playlist,
\* PlaylistTrack, Track; Business gives Customer, Employee, Invoice,
\* InvoiceLine; any other name gives nothing.  The two lists are disjoint
\* and together are the 11 usable table names.
C4_Contribution(name) ==
    CASE name = "Music" ->
           <<"Album", "Artist", "Genre", "MediaType", "Playlist", "PlaylistTrack", "Track">>
      [] name = "Business" -> <<"Customer", "Employee", "Invoice", "InvoiceLine">>
      [] OTHER -> <<>>

RECURSIVE C4_Offset(_)
C4_Offset(i) ==
    IF i <= 1 THEN 0 ELSE C4_Offset(i - 1) + Len(C4_Contribution(categories[i - 1]))

C4_GetTablesConcatenates ==
    /\ IsSet(table_names_to_use) =>
        LET tables == Get(table_names_to_use)
        IN  /\ Len(tables) = C4_Offset(Len(categories) + 1)
            /\ \A i \in 1..Len(categories) :
                 \A k \in 1..Len(C4_Contribution(categories[i])) :
                    tables[C4_Offset(i) + k] = C4_Contribution(categories[i])[k]
    /\ Range(C4_Contribution("Music")) \cap Range(C4_Contribution("Business")) = {}
    /\ Range(C4_Contribution("Music")) \cup Range(C4_Contribution("Business"))
         = Range(UsableTableNames)
    /\ Cardinality(Range(UsableTableNames)) = 11
    /\ Range(get_tables(<<"Music", "Business">>)) = Range(UsableTableNames)

C4_Witness ==
    /\ categories = <<"Business", "Music">>
    /\ table_names_to_use =
         Some(<<"Customer", "Employee", "Invoice", "InvoiceLine", "Album", "Artist",
                "Genre", "MediaType", "Playlist", "PlaylistTrack", "Track">>)

\* C5: every name table_chain returns is a usable table name of the
\* database, whatever categories the model returns.
C5_SubsetOfUsableTables ==
    IsSet(table_names_to_use) =>
        \A i \in 1..Len(Get(table_names_to_use)) :
            \E j \in 1..Len(UsableTableNames) :
                Get(table_names_to_use)[i] = UsableTableNames[j]

C5_Witness ==
    /\ categories = <<"music", "Music">>
    /\ IsSet(table_names_to_use)
    /\ Len(Get(table_names_to_use)) = 7

\* C6: the texts passed to FAISS.from_texts are distinct: no string occurs
\* twice in the proper_nouns list built by the three query_as_list calls.
C6_IndexedValuesDistinct ==
    IsSet(vector_db) =>
        \A i, j \in 1..Len(Get(vector_db)) :
            Get(vector_db)[i] = Get(vector_db)[j] => i = j

\* C7: the proper_nouns value chain gives to the prompt is the page contents
\* of the retrieved documents joined by newlines, in the retriever's order;
\* there are at most 15 of them and each is a text of the index.
RECURSIVE C7_Offset(_)
C7_Offset(i) == IF i <= 1 THEN 0 ELSE C7_Offset(i - 1) + Len(docs[i - 1]) + 1

C7_RetrievedNounsJoined ==
    (/\ IsSet(LastStep)
     /\ Get(LastStep).run = "chain"
     /\ Get(LastStep).op \in {"retriever_chain", "query_chain"}) =>
        /\ IsSet(vector_db)
        /\ IsSet(prompt_nouns)
        /\ Len(docs) <= 15
        /\ \A i \in 1..Len(docs) : \E j \in 1..Len(proper_nouns) : docs[i] = proper_nouns[j]
        /\ LET text == Get(prompt_nouns)
           IN  /\ Len(text) = (IF docs = <<>> THEN 0 ELSE C7_Offset(Len(docs) + 1) - 1)
               /\ \A i \in 1..Len(docs) :
                    /\ \A k \in 1..Len(docs[i]) : text[C7_Offset(i) + k] = docs[i][k]
                    /\ i < Len(docs) => text[C7_Offset(i + 1)] = "\n"

C7_Witness ==
    /\ LastStep = Some(StepOf("chain", "retriever_chain"))
    /\ IsSet(vector_db)
    /\ Len(Get(vector_db)) > 15
    /\ Len(docs) = 15
    /\ docs[1] # Get(vector_db)[1]
    /\ IsSet(prompt_nouns)
    /\ Len(Get(prompt_nouns)) > 15

\* C8: the query string is the model's raw text, not validated and not
\* changed, and db.run receives exactly the string the chain returned.
C8_RawTextExecuted ==
    /\ IsSet(query) => query = llm_text
    /\ (IsSet(LastStep) /\ Get(LastStep).op = "db.run") =>
         /\ IsSet(executed)
         /\ executed = query
         /\ executed = llm_text

C8_Witness ==
    /\ LastStep = Some(StepOf("chain", "db.run"))
    /\ llm_text = Some(<<" ", "S", "\n">>)
    /\ executed = llm_text

\* C9: query_as_list returns, in row-major order, one entry for each truthy
\* cell of the result set and none for a null or empty cell; the entry is
\* the cell's text without its standalone runs of digits and without
\* leading and trailing whitespace; there are as many entries as truthy cells.

\* the elements of the set P of positions of s, in increasing order
C9_Pick(s, P) ==
    [k \in 1..Cardinality(P) |->
        s[CHOOSE p \in P : Cardinality({x \in P : x < p}) = k - 1]]

\* s[p] is in a run of digits with no word character on either side of the run
C9_Standalone(s, p) ==
    /\ IsDigit(s[p])
    /\ \E lo \in 1..p, hi \in p..Len(s) :
        /\ \A x \in lo..hi : IsDigit(s[x])
        /\ lo = 1 \/ ~IsWord(s[lo - 1])
        /\ hi = Len(s) \/ ~IsWord(s[hi + 1])

C9_Stripped(t) ==
    LET solid == {p \in 1..Len(t) : ~IsSpace(t[p])}
    IN  IF solid = {} THEN <<>>
        ELSE SubSeq(t, CHOOSE p \in solid : \A x \in solid : p <= x,
                       CHOOSE p \in solid : \A x \in solid : x <= p)

C9_Entry(s) == C9_Stripped(C9_Pick(s, {p \in 1..Len(s) : ~C9_Standalone(s, p)}))

\* the cells in row-major order: cell m of r rows of c columns
C9_Cell(m) == LET c == Len(res[1]) IN res[((m - 1) \div c) + 1][((m - 1) % c) + 1]
C9_Cells == [m \in 1..(Len(res) * Len(res[1])) |-> C9_Cell(m)]

C10_NoEmptyProperNoun ==
    /\ \A i \in 1..Len(proper_nouns) : proper_nouns[i] # <<>>
    /\ IsSet(vector_db) => \A i \in 1..Len(Get(vector_db)) : Get(vector_db)[i] # <<>>

\* C11 as stated: get_tables returns each table name at most once for every
\* list of categories, also one that names a category more than once.
C11_NoDuplicateTables ==
    IsSet(table_names_to_use) =>
        \A i, j \in 1..Len(Get(table_names_to_use)) :
            Get(table_names_to_use)[i] = Get(table_names_to_use)[j] => i = j

\* C11 as amended: a table name occurs in the result of get_tables as many
\* times as the categories name its category; so when neither Music nor
\* Business is named more than once, each table name occurs at most once.
C11_Times(name) ==
    Cardinality({i \in 1..Len(categories) : name \in Range(C4_Contribution(categories[i]))})

C11_DuplicatesOnlyFromRepeatedCategory ==
    IsSet(table_names_to_use) =>
        LET tables == Get(table_names_to_use)
            repeated == \E i, j \in 1..Len(categories) :
                           /\ i # j
                           /\ categories[i] = categories[j]
                           /\ categories[i] \in {"Music", "Business"}
        IN  /\ \A name \in Range(tables) \cup Range(UsableTableNames) :
                 Cardinality({k \in 1..Len(tables) : tables[k] = name}) = C11_Times(name)
            /\ ~repeated =>
                 \A i, j \in 1..Len(tables) : tables[i] = tables[j] => i = j

C11_Witness ==
    /\ categories = <<"Music", "Business">>
    /\ IsSet(table_names_to_use)
    /\ Len(Get(table_names_to_use)) = 11
    /\ Cardinality(Range(Get(table_names_to_use))) = 11

====
